---- MODULE Spec2Model ----
(***************************************************************************)
(* arXiv notifier bot: the two SQLite relations of database/database.py    *)
(* (user_subscriptions, notified_articles), the periodic job               *)
(* check_new_articles of src/arxiv_bot.py and the command handlers that    *)
(* write the subscription table.                                           *)
(*                                                                         *)
(* A table is a sequence of rows in increasing rowid order.  SQLite gives  *)
(* a new row of these tables a rowid larger than every rowid present, so   *)
(* appending at the end is what INSERT does and "ORDER BY rowid DESC" is   *)
(* the reversed sequence.                                                  *)
(*                                                                         *)
(* The bot runs on one asyncio event loop: a coroutine runs alone until it *)
(* awaits.  check_new_articles awaits only in context.bot.send_message     *)
(* (arxiv_bot.py:418); search_arxiv and every database call are            *)
(* synchronous.  The tick is therefore a sequence of steps that nothing    *)
(* interleaves with except while pc = "send"; the command handlers run     *)
(* when the tick is idle or suspended in the send.                         *)
(*                                                                         *)
(* The job queue that main gives check_new_articles to (arxiv_bot.py:      *)
(* 477-481) is taken to run one instance of the job at a time: TickStart   *)
(* is enabled only when no tick is running.                                *)
(***************************************************************************)
EXTENDS Integers, Sequences, FiniteSets, TLC

\* Config.MAX_NOTIFICATION_HISTORY (config.py:31, default 1000) and
\* Config.MAX_RESULTS_PER_SEARCH (config.py:18, default 100), both read from
\* the environment; scaled down here.
MAX_NOTIFICATION_HISTORY == 1
MAX_RESULTS_PER_SEARCH == 1
\* Config.MAX_TEST_RESULTS (config.py:23), the length of a /test reply.
MAX_TEST_RESULTS == 3

\* Bounds of a run: timer firings, handler invocations, changes of arXiv.
MaxTicks == 2
MaxCommands == 2
MaxPublishes == 1
\* Largest max_history a direct call of clean_old_notifications is given.
MaxHistoryArg == 2

\* Telegram user ids, subscription topics and arXiv short ids of the model;
\* the articles are listed newest first.
Users == {1, 2}
Topics == {"cs.AI", "quantum"}
ByDate == <<"a2", "a1">>
Articles == {ByDate[i] : i \in 1..Len(ByDate)}
\* The topic a handler gets from "/subscribe" with no argument.
EmptyTopic == ""

VARIABLES
    user_subscriptions,  \* table: rows <<user_id, topic>>
    notified_articles,   \* table: rows <<user_id, article_id>>
    arxiv,               \* per topic, the matching articles in the search window
    pc,                  \* position of check_new_articles
    subscriptions,       \* the tick's snapshot (a dict: entries in insertion order)
    all_topics,          \* topics of the snapshot not yet iterated
    topic,               \* loop variable of "for topic in all_topics"
    articles,            \* articles of the current topic not yet iterated
    article_id,          \* id of the current article
    uidx,                \* position of "for ... in subscriptions.items()"
    newly_notified_articles,
    tick,                \* observations of the current (or last) tick
    hist,                \* observations over the whole run
    events,              \* how many ticks, commands and publishes so far
    call,                \* last store call made directly, and the tables before it
    db_lock,             \* threading.Lock(): TRUE while it is held
    threads              \* per thread calling database.py, where it is in a call

vars == <<user_subscriptions, notified_articles, arxiv, pc, subscriptions,
          all_topics, topic, articles, article_id, uidx,
          newly_notified_articles, tick, hist, events, call, db_lock, threads>>

tickLocals == <<subscriptions, all_topics, topic, articles, article_id, uidx,
                newly_notified_articles>>

lockVars == <<db_lock, threads>>

----------------------------------------------------------------------------
\* Sequence helpers.

Range(s) == {s[i] : i \in 1..Len(s)}

Reverse(s) == [i \in 1..Len(s) |-> s[Len(s) + 1 - i]]

\* Python s[:n] and s[n:] for n >= 0.
Take(s, n) == SubSeq(s, 1, IF n < Len(s) THEN n ELSE Len(s))
Drop(s, n) == SubSeq(s, n + 1, Len(s))

----------------------------------------------------------------------------
\* database/database.py

\* INSERT [OR IGNORE] under PRIMARY KEY (both columns): a row not yet
\* present gets the next rowid; a row equal to one present is dropped with
\* OR IGNORE and raises sqlite3.IntegrityError without it.  The result is the
\* table after the statement and whether the statement raised.
sql_insert(table, row, or_ignore) ==
    IF row \in Range(table)
    THEN [rows |-> table, error |-> ~or_ignore]
    ELSE [rows |-> Append(table, row), error |-> FALSE]

\* Mutant: the row is appended whatever the table holds (no primary key).
add_subscription_no_key(table, user_id, t) ==
    [rows |-> Append(table, <<user_id, t>>), error |-> FALSE]

add_subscription(table, user_id, t) ==
    sql_insert(table, <<user_id, t>>, TRUE)

\* Mutant: DELETE ... WHERE user_id = ? (the topic is not compared).
remove_subscription_all_topics(table, user_id, t) ==
    SelectSeq(table, LAMBDA row : row[1] # user_id)

remove_subscription(table, user_id, t) ==
    SelectSeq(table, LAMBDA row : ~(row[1] = user_id /\ row[2] = t))

\* SELECT <second column> FROM table WHERE user_id = ?, in rowid order.
select_where_user(table, user_id) ==
    LET rows == SelectSeq(table, LAMBDA row : row[1] = user_id)
    IN  [i \in 1..Len(rows) |-> rows[i][2]]

get_user_subscriptions(table, user_id) == select_where_user(table, user_id)

\* str(user_id) and int(user_id_str)
str(user_id) == ToString(user_id)
int(user_id_str) == CHOOSE u \in Users : ToString(u) = user_id_str

\* The dict under construction is a sequence of entries [key, value] in
\* insertion order; dictPut is lines 80-82 for one row.
dictPut(d, k, t) ==
    IF \E i \in 1..Len(d) : d[i].key = k
    THEN [i \in 1..Len(d) |->
            IF d[i].key = k THEN [d[i] EXCEPT !.value = Append(@, t)] ELSE d[i]]
    ELSE Append(d, [key |-> k, value |-> <<t>>])

RECURSIVE get_all_subscriptions_from(_, _)
get_all_subscriptions_from(rows, d) ==
    IF rows = <<>> THEN d
    ELSE get_all_subscriptions_from(Tail(rows),
                                    dictPut(d, str(Head(rows)[1]), Head(rows)[2]))

get_all_subscriptions(table) == get_all_subscriptions_from(table, <<>>)

has_been_notified(table, user_id, a) == <<user_id, a>> \in Range(table)

\* Mutant: INSERT without OR IGNORE.
add_notified_article_plain_insert(table, user_id, a) ==
    sql_insert(table, <<user_id, a>>, FALSE)

add_notified_article(table, user_id, a) ==
    sql_insert(table, <<user_id, a>>, TRUE)

\* Mutant: ORDER BY rowid ASC, so the oldest max_history rows are kept.
clean_old_notifications_keep_oldest(table, user_id, max_history) ==
    LET all_articles == select_where_user(table, user_id)
        articles_to_delete == Drop(all_articles, max_history)
    IN  IF Len(all_articles) > max_history
        THEN SelectSeq(table, LAMBDA row :
                 ~(row[1] = user_id /\ row[2] \in Range(articles_to_delete)))
        ELSE table

clean_old_notifications(table, user_id, max_history) ==
    LET all_articles ==
            Reverse(select_where_user(table, user_id))  \* ORDER BY rowid DESC
        articles_to_delete == Drop(all_articles, max_history)
    IN  IF Len(all_articles) > max_history
        THEN SelectSeq(table, LAMBDA row :
                 ~(row[1] = user_id /\ row[2] \in Range(articles_to_delete)))
        ELSE table

----------------------------------------------------------------------------
\* src/arxiv_search.py

\* search_arxiv(topic, max_results, days_back): the matching articles sorted
\* by submission date, newest first, cut at max_results (lines 41-69); an
\* exception of the arxiv client is caught at lines 71-73 and the result is
\* then the empty list.
search_arxiv(t, max_results, client_fails) ==
    IF client_fails THEN <<>>
    ELSE Take(SelectSeq(ByDate, LAMBDA a : a \in arxiv[t]), max_results)

----------------------------------------------------------------------------
\* Observations (not program state).

Pairs == Users \X Articles

NoTick == [exit |-> "none",          \* "none", "running", "returned", "raised"
           sent |-> [p \in Pairs |-> 0],    \* sends that returned, this tick
           failed |-> [p \in Pairs |-> 0],  \* sends that raised, this tick
           atStart |-> {},           \* ledger rows when the tick started
           result |-> [t \in Topics |-> "pending"],
           repeat |-> FALSE,         \* same subscriptions and feeds as the tick before
           prevSent |-> {}]          \* pairs delivered by the tick before (if repeat)

\* A direct call of a database function: its arguments, both tables before
\* it, what it returned (as a sequence) and whether it raised.
NoCall == [op |-> "none", user |-> 0, topic |-> "", article |-> "", n |-> 0,
           subs |-> <<>>, notified |-> <<>>, ret |-> <<>>, error |-> FALSE]

\* The two callers of database.py: the command handlers and the periodic
\* job, with the functions each calls.
Threads == {"handler", "tick"}
CallsOf(th) ==
    IF th = "handler"
    THEN {"add_subscription", "remove_subscription", "get_user_subscriptions"}
    ELSE {"get_all_subscriptions", "has_been_notified", "add_notified_article",
          "clean_old_notifications"}

\* A thread is outside database.py ("out"), inside a "with db_lock:" block
\* before its statements ("body"), after the SELECT of
\* clean_old_notifications ("selected"), or at the end of the block
\* ("leave", raised or not).
Outside == [at |-> "out", op |-> "none", user |-> 0, all_articles |-> <<>>,
            raised |-> FALSE]

\* The (user, topic, article) a handler that leaves the subscription table
\* as `table` adds to hist.dropped: the user is recorded for the article and
\* loses the topic.
DroppedBy(table) ==
    UNION {{<<row[1], row[2], a>> :
               a \in {b \in Articles : <<row[1], b>> \in Range(notified_articles)}} :
           row \in Range(user_subscriptions) \ Range(table)}

\* The topics a dict entry of the snapshot lists, and the snapshot's users.
SnapshotTopics(d) == UNION {Range(d[i].value) : i \in 1..Len(d)}
SnapshotUsers(d) == {int(d[i].key) : i \in 1..Len(d)}
Subscribed(d, u, t) == \E i \in 1..Len(d) : int(d[i].key) = u /\ t \in Range(d[i].value)

----------------------------------------------------------------------------
\* src/arxiv_bot.py: check_new_articles

\* Lines 381-395: the snapshot, the early return, the set of topics.
TickStart ==
    /\ pc = "idle"
    /\ events.ticks < MaxTicks
    /\ events' = [events EXCEPT !.ticks = @ + 1]
    /\ LET subs == get_all_subscriptions(user_subscriptions)
           fresh == [NoTick EXCEPT
                       !.exit = "running",
                       !.atStart = Range(notified_articles),
                       !.repeat = (tick.exit = "returned" /\ hist.unchanged),
                       !.prevSent = IF tick.exit = "returned" /\ hist.unchanged
                                    THEN {p \in Pairs : tick.sent[p] > 0}
                                    ELSE {}]
       IN  /\ subscriptions' = subs
           /\ IF subs = <<>>
              THEN /\ pc' = "idle"
                   /\ tick' = [fresh EXCEPT !.exit = "returned"]
                   /\ all_topics' = {}
              ELSE /\ pc' = "topic"
                   /\ tick' = fresh
                   /\ all_topics' = SnapshotTopics(subs)
    /\ newly_notified_articles' = {}
    /\ topic' = ""
    /\ articles' = <<>>
    /\ article_id' = ""
    /\ uidx' = 0
    /\ hist' = [hist EXCEPT !.unchanged = TRUE]
    /\ UNCHANGED <<user_subscriptions, notified_articles, arxiv, call, lockVars>>

\* Mutant: no except clause, the exception ends the tick.
topic_except_missing(t, kind) ==
    /\ pc' = "idle"
    /\ tick' = [tick EXCEPT !.result[t] = kind, !.exit = "raised"]

\* Lines 434-435: an exception raised while a topic is processed is logged
\* and the loop goes on with the next topic.
topic_except(t, kind) ==
    /\ pc' = "topic"
    /\ tick' = [tick EXCEPT !.result[t] = kind]

\* Mutant: a topic whose search raised stays in the set and is searched again.
NextTopic_search_again ==
    /\ pc = "topic"
    /\ all_topics # {}
    /\ \E t \in all_topics :
         /\ topic' = t
         /\ \/ \E client_fails \in BOOLEAN :
                 /\ articles' = search_arxiv(t, MAX_RESULTS_PER_SEARCH, client_fails)
                 /\ tick' = [tick EXCEPT !.result[t] =
                                IF client_fails THEN "error" ELSE "ok"]
                 /\ pc' = "article"
                 /\ all_topics' = all_topics \ {t}
            \/ /\ articles' = <<>>
               /\ topic_except(t, "raised")
               /\ all_topics' = all_topics
    /\ article_id' = ""
    /\ uidx' = 0
    /\ UNCHANGED <<user_subscriptions, notified_articles, arxiv, subscriptions,
                   newly_notified_articles, hist, events, call, lockVars>>

\* Lines 397-403: the next topic (a Python set iterates in no fixed order)
\* and its search.  The search returns a list, returns [] after an error of
\* the arxiv client, or raises.
NextTopic ==
    /\ pc = "topic"
    /\ all_topics # {}
    /\ \E t \in all_topics :
         /\ topic' = t
         /\ all_topics' = all_topics \ {t}
         \* articles is read only after a search has returned
         /\ \/ \E client_fails \in BOOLEAN :
                 /\ articles' = search_arxiv(t, MAX_RESULTS_PER_SEARCH, client_fails)
                 /\ tick' = [tick EXCEPT !.result[t] =
                                IF client_fails THEN "error" ELSE "ok"]
                 /\ pc' = "article"
            \/ /\ articles' = <<>>
               /\ topic_except(t, "raised")
    /\ article_id' = ""
    /\ uidx' = 0
    /\ UNCHANGED <<user_subscriptions, notified_articles, arxiv, subscriptions,
                   newly_notified_articles, hist, events, call, lockVars>>

\* Line 397 with no topic left.
TopicsDone ==
    /\ pc = "topic"
    /\ all_topics = {}
    /\ pc' = "clean"
    /\ UNCHANGED <<user_subscriptions, notified_articles, arxiv, tickLocals,
                   tick, hist, events, call, lockVars>>

\* Lines 405-411: the next article of the topic; reading its fields and
\* formatting the message either works or raises (a malformed article).
NextArticle ==
    /\ pc = "article"
    /\ IF articles = <<>>
       THEN /\ pc' = "topic"
            /\ UNCHANGED <<articles, article_id, uidx, tick>>
       ELSE \/ /\ article_id' = Head(articles)
               /\ articles' = Tail(articles)
               /\ uidx' = 1
               /\ pc' = "user"
               /\ UNCHANGED tick
            \/ /\ topic_except(topic, "aborted")
               /\ UNCHANGED <<articles, article_id, uidx>>
    /\ UNCHANGED <<user_subscriptions, notified_articles, arxiv, subscriptions,
                   all_topics, topic, newly_notified_articles, hist, events, call, lockVars>>

\* Mutant: the ledger row is written before the send is awaited.
NextUser_record_first ==
    /\ pc = "user"
    /\ IF uidx > Len(subscriptions)
       THEN /\ pc' = "article"
            /\ UNCHANGED <<uidx, notified_articles>>
       ELSE LET user_id == int(subscriptions[uidx].key)
                user_topics == subscriptions[uidx].value
            IN  IF /\ topic \in Range(user_topics)
                   /\ ~has_been_notified(notified_articles, user_id, article_id)
                THEN /\ pc' = "send"
                     /\ notified_articles' =
                            add_notified_article(notified_articles, user_id,
                                                 article_id).rows
                     /\ UNCHANGED uidx
                ELSE /\ pc' = "user"
                     /\ uidx' = uidx + 1
                     /\ UNCHANGED notified_articles
    /\ UNCHANGED <<user_subscriptions, arxiv, subscriptions,
                   all_topics, topic, articles, article_id,
                   newly_notified_articles, tick, hist, events, call, lockVars>>

\* Mutant: the loop reads the subscriptions of the moment, not the snapshot.
NextUser_live_subscriptions ==
    /\ pc = "user"
    /\ LET live == get_all_subscriptions(user_subscriptions)
       IN  IF uidx > Len(live)
           THEN /\ pc' = "article"
                /\ UNCHANGED uidx
           ELSE LET user_id == int(live[uidx].key)
                    user_topics == live[uidx].value
                IN  IF /\ topic \in Range(user_topics)
                       /\ ~has_been_notified(notified_articles, user_id, article_id)
                    THEN /\ pc' = "send"
                         /\ UNCHANGED uidx
                    ELSE /\ pc' = "user"
                         /\ uidx' = uidx + 1
    /\ UNCHANGED <<user_subscriptions, notified_articles, arxiv, subscriptions,
                   all_topics, topic, articles, article_id,
                   newly_notified_articles, tick, hist, events, call, lockVars>>

\* Lines 413-416 and 431-432: the next entry of subscriptions.items().
NextUser ==
    /\ pc = "user"
    /\ IF uidx > Len(subscriptions)
       THEN /\ pc' = "article"
            /\ UNCHANGED uidx
       ELSE LET user_id == int(subscriptions[uidx].key)
                user_topics == subscriptions[uidx].value
            IN  IF /\ topic \in Range(user_topics)
                   /\ ~has_been_notified(notified_articles, user_id, article_id)
                THEN /\ pc' = "send"
                     /\ UNCHANGED uidx
                ELSE /\ pc' = "user"
                     /\ uidx' = uidx + 1
    /\ UNCHANGED <<user_subscriptions, notified_articles, arxiv, subscriptions,
                   all_topics, topic, articles, article_id,
                   newly_notified_articles, tick, hist, events, call, lockVars>>

\* Mutant: the row is written whether or not the send raised.
ledger_after_send_always(table, user_id, a, delivered) ==
    add_notified_article(table, user_id, a).rows

\* Lines 417-430: what the ledger is once the awaited send has returned
\* (delivered) or raised; an error of add_notified_article would be caught
\* by the same except clause.
ledger_after_send(table, user_id, a, delivered) ==
    IF delivered THEN add_notified_article(table, user_id, a).rows ELSE table

\* Lines 418-430: the awaited send_message returns or raises.
SendReturns ==
    /\ pc = "send"
    /\ \E delivered \in BOOLEAN :
         LET user_id == int(subscriptions[uidx].key)
             p == <<user_id, article_id>>
         IN  /\ notified_articles' =
                    ledger_after_send(notified_articles, user_id, article_id, delivered)
             /\ newly_notified_articles' =
                    IF delivered THEN newly_notified_articles \cup {article_id}
                    ELSE newly_notified_articles
             /\ tick' = IF delivered THEN [tick EXCEPT !.sent[p] = @ + 1]
                        ELSE [tick EXCEPT !.failed[p] = @ + 1]
             /\ hist' = [hist EXCEPT
                           !.delivered = IF delivered THEN @ \cup {p} ELSE @,
                           !.recorded = @ \cup (Range(notified_articles') \
                                                   Range(notified_articles))]
    /\ uidx' = uidx + 1
    /\ pc' = "user"
    /\ UNCHANGED <<user_subscriptions, arxiv, subscriptions, all_topics, topic,
                   articles, article_id, events, call, lockVars>>

\* Mutant: the loop over the keys starts at the second key.
clean_all_from_second(table, d, max_history) ==
    IF d = <<>> THEN table
    ELSE LET rest == Tail(d)
             step[i \in 0..Len(rest)] ==
                 IF i = 0 THEN table
                 ELSE clean_old_notifications(step[i - 1], int(rest[i].key),
                                              max_history)
         IN  step[Len(rest)]

\* Lines 440-443: clean_old_notifications for every key of the snapshot.
RECURSIVE clean_all(_, _, _)
clean_all(table, d, max_history) ==
    IF d = <<>> THEN table
    ELSE clean_all(clean_old_notifications(table, int(Head(d).key), max_history),
                   Tail(d), max_history)

Clean ==
    /\ pc = "clean"
    /\ notified_articles' =
           clean_all(notified_articles, subscriptions, MAX_NOTIFICATION_HISTORY)
    /\ pc' = "done"
    /\ UNCHANGED <<user_subscriptions, arxiv, tickLocals, tick, hist, events, call, lockVars>>

\* Line 445: the tick returns.
Finish ==
    /\ pc = "done"
    /\ pc' = "idle"
    /\ tick' = [tick EXCEPT !.exit = "returned"]
    /\ subscriptions' = <<>>
    /\ all_topics' = {}
    /\ topic' = ""
    /\ articles' = <<>>
    /\ article_id' = ""
    /\ uidx' = 0
    /\ newly_notified_articles' = {}
    /\ UNCHANGED <<user_subscriptions, notified_articles, arxiv, hist, events, call, lockVars>>

----------------------------------------------------------------------------
\* src/arxiv_bot.py: the handlers that write the subscription table.  A
\* handler runs when the event loop is free: the tick is not running or is
\* suspended in its send.

LoopFree == pc \in {"idle", "send"}

subscribed_table(table, user_id, t) ==
    IF t \notin Range(get_user_subscriptions(table, user_id))
    THEN add_subscription(table, user_id, t).rows
    ELSE table

\* Mutant: a handler that removes a subscription also deletes the ledger
\* rows of that user.
SetSubscriptions_forget_history(table) ==
    /\ events.commands < MaxCommands
    /\ events' = [events EXCEPT !.commands = @ + 1]
    /\ user_subscriptions' = table
    /\ notified_articles' =
           SelectSeq(notified_articles, LAMBDA row :
               \A gone \in Range(user_subscriptions) \ Range(table) :
                   gone[1] # row[1])
    /\ hist' = [hist EXCEPT
                  !.unchanged = @ /\ table = user_subscriptions,
                  !.dropped = @ \cup DroppedBy(table)]
    /\ UNCHANGED <<arxiv, pc, tickLocals, tick, call, lockVars>>

\* What a handler leaves behind: the subscription table it wrote (or left as
\* it was); the handlers call no function that writes notified_articles.
SetSubscriptions(table) ==
    /\ events.commands < MaxCommands
    /\ events' = [events EXCEPT !.commands = @ + 1]
    /\ user_subscriptions' = table
    /\ hist' = [hist EXCEPT
                  !.unchanged = @ /\ table = user_subscriptions,
                  !.dropped = @ \cup DroppedBy(table)]
    /\ UNCHANGED <<notified_articles, arxiv, pc, tickLocals, tick, call, lockVars>>

\* /subscribe <topic>, lines 189-217.
subscribe ==
    /\ LoopFree
    /\ \E user_id \in Users, t \in Topics \cup {EmptyTopic} :
         SetSubscriptions(IF t = EmptyTopic THEN user_subscriptions
                          ELSE subscribed_table(user_subscriptions, user_id, t))

\* The "sub" and "sub_cat" buttons, lines 247-259.
subscribe_handler ==
    /\ LoopFree
    /\ \E user_id \in Users, t \in Topics :
         SetSubscriptions(subscribed_table(user_subscriptions, user_id, t))

\* /unsubscribe <topic>, lines 274-283.
unsubscribe ==
    /\ LoopFree
    /\ \E user_id \in Users, t \in Topics \cup {EmptyTopic} :
         SetSubscriptions(IF t = EmptyTopic THEN user_subscriptions
                          ELSE remove_subscription(user_subscriptions, user_id, t))

\* The "unsub" and "unsub_cat" buttons, lines 261-272.
unsubscribe_handler ==
    /\ LoopFree
    /\ \E user_id \in Users, t \in Topics :
         SetSubscriptions(remove_subscription(user_subscriptions, user_id, t))

\* /mysubscriptions and the "my_subscriptions" button, lines 285-309: the
\* reply lists get_user_subscriptions(user_id).
mysubscriptions ==
    /\ LoopFree
    /\ \E user_id \in Users :
         LET user_topics == get_user_subscriptions(user_subscriptions, user_id)
         IN  SetSubscriptions(user_subscriptions)

\* /categories and the "browse_categories" button, lines 160-187: the reply
\* marks the categories of get_user_subscriptions(user_id).
categories ==
    /\ LoopFree
    /\ \E user_id \in Users :
         LET user_topics == get_user_subscriptions(user_subscriptions, user_id)
         IN  SetSubscriptions(user_subscriptions)

\* /test <topic>, lines 311-348: one search, replied to the user.
test_search ==
    /\ LoopFree
    /\ \E t \in Topics \cup {EmptyTopic}, client_fails \in BOOLEAN :
         LET found == IF t = EmptyTopic THEN <<>>
                      ELSE search_arxiv(t, MAX_TEST_RESULTS, client_fails)
         IN  SetSubscriptions(user_subscriptions)

\* arXiv announces new articles (for all categories at once) and old ones
\* leave the search window.  A search reads a topic's feed once per tick, so
\* a change during a tick is seen as a change before or after it: feeds
\* change between ticks.
Publish ==
    /\ pc = "idle"
    /\ events.publishes < MaxPublishes
    /\ events' = [events EXCEPT !.publishes = @ + 1]
    /\ \E feeds \in [Topics -> SUBSET Articles] :
         /\ feeds # arxiv
         /\ arxiv' = feeds
    /\ hist' = [hist EXCEPT !.unchanged = FALSE]
    /\ UNCHANGED <<user_subscriptions, notified_articles, pc, tickLocals, tick, call, lockVars>>

----------------------------------------------------------------------------

Init ==
    /\ user_subscriptions = <<>>
    /\ notified_articles = <<>>
    /\ arxiv = [t \in Topics |-> {}]
    /\ pc = "idle"
    /\ subscriptions = <<>>
    /\ all_topics = {}
    /\ topic = ""
    /\ articles = <<>>
    /\ article_id = ""
    /\ uidx = 0
    /\ newly_notified_articles = {}
    /\ tick = NoTick
    /\ hist = [delivered |-> {}, recorded |-> {}, unchanged |-> FALSE,
               dropped |-> {}]
    /\ events = [ticks |-> 0, commands |-> 0, publishes |-> 0]
    /\ call = NoCall
    /\ db_lock = FALSE
    /\ threads = [th \in Threads |-> Outside]

Next ==
    \/ TickStart
    \/ NextTopic
    \/ TopicsDone
    \/ NextArticle
    \/ NextUser
    \/ SendReturns
    \/ Clean
    \/ Finish
    \/ subscribe
    \/ subscribe_handler
    \/ unsubscribe
    \/ unsubscribe_handler
    \/ mysubscriptions
    \/ categories
    \/ test_search
    \/ Publish

Spec == Init /\ [][Next]_vars

\* A started tick goes on: the event loop resumes the coroutine, and every
\* search and every awaited send returns or raises in finite time.
TickStep ==
    \/ NextTopic
    \/ TopicsDone
    \/ NextArticle
    \/ NextUser
    \/ SendReturns
    \/ Clean
    \/ Finish

SpecLive == Init /\ [][Next]_vars /\ WF_vars(TickStep)

\* The bot started on a database file an earlier run left: initialize_database
\* creates the tables only if they do not exist (database.py:14-40), so
\* the subscriptions of that run are there.
InitRestart ==
    /\ user_subscriptions \in
           {<<>>} \cup {<<row>> : row \in Users \X Topics}
    /\ notified_articles = <<>>
    /\ arxiv = [t \in Topics |-> {}]
    /\ pc = "idle"
    /\ subscriptions = <<>>
    /\ all_topics = {}
    /\ topic = ""
    /\ articles = <<>>
    /\ article_id = ""
    /\ uidx = 0
    /\ newly_notified_articles = {}
    /\ tick = NoTick
    /\ hist = [delivered |-> {}, recorded |-> {}, unchanged |-> FALSE,
               dropped |-> {}]
    /\ events = [ticks |-> 0, commands |-> 0, publishes |-> 0]
    /\ call = NoCall
    /\ db_lock = FALSE
    /\ threads = [th \in Threads |-> Outside]

SpecRestart == InitRestart /\ [][Next]_vars

----------------------------------------------------------------------------
\* The database functions called directly, in any order and with any
\* arguments (database/database.py as a library).

StoreCall(op, u, t, a, n, ret, error) ==
    /\ call' = [op |-> op, user |-> u, topic |-> t, article |-> a, n |-> n,
                subs |-> user_subscriptions, notified |-> notified_articles,
                ret |-> ret, error |-> error]
    /\ UNCHANGED <<arxiv, pc, tickLocals, tick, hist, events, lockVars>>

call_add_subscription ==
    \E u \in Users, t \in Topics :
      LET r == add_subscription(user_subscriptions, u, t)
      IN  /\ user_subscriptions' = r.rows
          /\ UNCHANGED notified_articles
          /\ StoreCall("add_subscription", u, t, "", 0, <<>>, r.error)

call_remove_subscription ==
    \E u \in Users, t \in Topics :
      /\ user_subscriptions' = remove_subscription(user_subscriptions, u, t)
      /\ UNCHANGED notified_articles
      /\ StoreCall("remove_subscription", u, t, "", 0, <<>>, FALSE)

call_get_user_subscriptions ==
    \E u \in Users :
      /\ UNCHANGED <<user_subscriptions, notified_articles>>
      /\ StoreCall("get_user_subscriptions", u, "", "", 0,
                   get_user_subscriptions(user_subscriptions, u), FALSE)

call_get_all_subscriptions ==
    /\ UNCHANGED <<user_subscriptions, notified_articles>>
    /\ StoreCall("get_all_subscriptions", 0, "", "", 0,
                 get_all_subscriptions(user_subscriptions), FALSE)

call_has_been_notified ==
    \E u \in Users, a \in Articles :
      /\ UNCHANGED <<user_subscriptions, notified_articles>>
      /\ StoreCall("has_been_notified", u, "", a, 0,
                   <<has_been_notified(notified_articles, u, a)>>, FALSE)

call_add_notified_article ==
    \E u \in Users, a \in Articles :
      LET r == add_notified_article(notified_articles, u, a)
      IN  /\ notified_articles' = r.rows
          /\ UNCHANGED user_subscriptions
          /\ StoreCall("add_notified_article", u, "", a, 0, <<>>, r.error)

call_clean_old_notifications ==
    \E u \in Users, n \in 0..MaxHistoryArg :
      /\ notified_articles' = clean_old_notifications(notified_articles, u, n)
      /\ UNCHANGED user_subscriptions
      /\ StoreCall("clean_old_notifications", u, "", "", n, <<>>, FALSE)

NextStore ==
    \/ call_add_subscription
    \/ call_remove_subscription
    \/ call_get_user_subscriptions
    \/ call_get_all_subscriptions
    \/ call_has_been_notified
    \/ call_add_notified_article
    \/ call_clean_old_notifications

SpecStore == Init /\ [][NextStore]_vars

----------------------------------------------------------------------------
\* The database functions called from two threads, the handlers' and the
\* job's (the connections are opened with check_same_thread=False): every
\* function is one "with db_lock:" block around its statements.

\* Mutant: the block is entered without waiting for the lock.
acquire_no_wait(locked) == TRUE

\* db_lock.__enter__ (threading.Lock.acquire) returns once the lock is free.
acquire(locked) == ~locked

\* db_lock.__exit__ releases the lock, whether the block raised or not; the
\* result is the lock afterwards.
release(raised) == FALSE

lockFrame == UNCHANGED <<arxiv, pc, tickLocals, tick, hist, events, call>>

AtBody(th, op) == threads[th].at = "body" /\ threads[th].op = op

Leave(th, raised) ==
    threads' = [threads EXCEPT ![th] = [Outside EXCEPT !.at = "leave",
                                                       !.op = threads[th].op,
                                                       !.raised = raised]]

\* "with db_lock:" is entered by a thread that calls one of its functions.
with_enter ==
    \E th \in Threads : \E op \in CallsOf(th) :
      /\ threads[th].at = "out"
      /\ acquire(db_lock)
      /\ db_lock' = TRUE
      /\ threads' = [threads EXCEPT ![th] = [Outside EXCEPT !.at = "body", !.op = op]]
      /\ UNCHANGED <<user_subscriptions, notified_articles>>
      /\ lockFrame

locked_add_subscription ==
    \E th \in Threads, u \in Users, t \in Topics :
      /\ AtBody(th, "add_subscription")
      /\ user_subscriptions' = add_subscription(user_subscriptions, u, t).rows
      /\ Leave(th, add_subscription(user_subscriptions, u, t).error)
      /\ UNCHANGED <<notified_articles, db_lock>>
      /\ lockFrame

locked_remove_subscription ==
    \E th \in Threads, u \in Users, t \in Topics :
      /\ AtBody(th, "remove_subscription")
      /\ user_subscriptions' = remove_subscription(user_subscriptions, u, t)
      /\ Leave(th, FALSE)
      /\ UNCHANGED <<notified_articles, db_lock>>
      /\ lockFrame

\* get_user_subscriptions, get_all_subscriptions and has_been_notified: one
\* SELECT, no write.
locked_select ==
    \E th \in Threads :
      /\ threads[th].at = "body"
      /\ threads[th].op \in {"get_user_subscriptions", "get_all_subscriptions",
                             "has_been_notified"}
      /\ Leave(th, FALSE)
      /\ UNCHANGED <<user_subscriptions, notified_articles, db_lock>>
      /\ lockFrame

locked_add_notified_article ==
    \E th \in Threads, u \in Users, a \in Articles :
      /\ AtBody(th, "add_notified_article")
      /\ notified_articles' = add_notified_article(notified_articles, u, a).rows
      /\ Leave(th, add_notified_article(notified_articles, u, a).error)
      /\ UNCHANGED <<user_subscriptions, db_lock>>
      /\ lockFrame

\* clean_old_notifications, lines 114-115: the SELECT into all_articles.
locked_clean_select ==
    \E th \in Threads, u \in Users :
      /\ AtBody(th, "clean_old_notifications")
      /\ threads' = [threads EXCEPT ![th].at = "selected", ![th].user = u,
                        ![th].all_articles =
                            Reverse(select_where_user(notified_articles, u))]
      /\ UNCHANGED <<user_subscriptions, notified_articles, db_lock>>
      /\ lockFrame

\* clean_old_notifications, lines 117-120: the DELETEs of all_articles past
\* max_history, computed from the list read before.
locked_clean_delete ==
    \E th \in Threads :
      /\ threads[th].at = "selected"
      /\ LET all_articles == threads[th].all_articles
             articles_to_delete == Drop(all_articles, MAX_NOTIFICATION_HISTORY)
         IN  notified_articles' =
                 IF Len(all_articles) > MAX_NOTIFICATION_HISTORY
                 THEN SelectSeq(notified_articles, LAMBDA row :
                          ~(row[1] = threads[th].user
                            /\ row[2] \in Range(articles_to_delete)))
                 ELSE notified_articles
      /\ Leave(th, FALSE)
      /\ UNCHANGED <<user_subscriptions, db_lock>>
      /\ lockFrame

\* A statement raises sqlite3.Error: nothing was committed and the block is
\* left with the exception.
statement_raises ==
    \E th \in Threads :
      /\ threads[th].at \in {"body", "selected"}
      /\ Leave(th, TRUE)
      /\ UNCHANGED <<user_subscriptions, notified_articles, db_lock>>
      /\ lockFrame

\* The end of the "with" block.
with_exit ==
    \E th \in Threads :
      /\ threads[th].at = "leave"
      /\ db_lock' = release(threads[th].raised)
      /\ threads' = [threads EXCEPT ![th] = Outside]
      /\ UNCHANGED <<user_subscriptions, notified_articles>>
      /\ lockFrame

NextLock ==
    \/ with_enter
    \/ locked_add_subscription
    \/ locked_remove_subscription
    \/ locked_select
    \/ locked_add_notified_article
    \/ locked_clean_select
    \/ locked_clean_delete
    \/ statement_raises
    \/ with_exit

SpecLock == Init /\ [][NextLock]_vars

----------------------------------------------------------------------------
\* Properties of the database functions (checked under SpecStore).

\* The rows of one user, oldest first, and how often a row occurs.
RowsOf(table, u) == SelectSeq(table, LAMBDA row : row[1] = u)
Occurrences(table, row) == Cardinality({i \in 1..Len(table) : table[i] = row})
NoDuplicateRows(table) == \A row \in Range(table) : Occurrences(table, row) = 1

\* C5: clean_old_notifications(user, N) on M > N records of the user leaves
\* exactly N of them, the N inserted last; on M <= N records it deletes
\* nothing.
C5_CleanKeepsNewest ==
    call.op = "clean_old_notifications" =>
        LET before == RowsOf(call.notified, call.user)
            after == RowsOf(notified_articles, call.user)
            M == Len(before)
            N == call.n
        IN  /\ M > N => /\ Len(after) = N
                        /\ after = SubSeq(before, M - N + 1, M)
            /\ M <= N => notified_articles = call.notified

C5_Witness ==
    /\ call.op = "clean_old_notifications"
    /\ call.n = 1
    /\ Len(RowsOf(call.notified, call.user)) = 2
    /\ Len(RowsOf(notified_articles, call.user)) = 1
    /\ Len(notified_articles) = 3

\* C6: add_subscription is idempotent: after it the topic is listed exactly
\* once for the user, a call for a pair already present raises nothing and
\* changes nothing, and the table never holds a (user, topic) pair twice.
C6_AddSubscriptionIdempotent ==
    /\ NoDuplicateRows(user_subscriptions)
    /\ call.op = "add_subscription" =>
         LET listed == get_user_subscriptions(user_subscriptions, call.user)
         IN  /\ Cardinality({i \in 1..Len(listed) : listed[i] = call.topic}) = 1
             /\ ~call.error
             /\ <<call.user, call.topic>> \in Range(call.subs)
                    => user_subscriptions = call.subs

C6_Witness ==
    /\ call.op = "add_subscription"
    /\ <<call.user, call.topic>> \in Range(call.subs)
    /\ Len(user_subscriptions) = 3

\* C7: remove_subscription of a pair present removes that pair and no other;
\* of a pair absent it changes nothing; a user left without topics is no key
\* of get_all_subscriptions(), like a user who never subscribed.
C7_RemoveSubscription ==
    /\ call.op = "remove_subscription" =>
         /\ call.topic \notin Range(get_user_subscriptions(user_subscriptions, call.user))
         /\ user_subscriptions =
                SelectSeq(call.subs, LAMBDA row : row # <<call.user, call.topic>>)
         /\ <<call.user, call.topic>> \notin Range(call.subs)
                => user_subscriptions = call.subs
         /\ ~call.error
    /\ \A u \in Users :
         LET d == get_all_subscriptions(user_subscriptions)
         IN  (\E i \in 1..Len(d) : d[i].key = str(u))
                 <=> get_user_subscriptions(user_subscriptions, u) # <<>>

C7_Witness ==
    /\ call.op = "remove_subscription"
    /\ <<call.user, call.topic>> \in Range(call.subs)
    /\ Len(RowsOf(call.subs, call.user)) = 2
    /\ Len(user_subscriptions) = 2

\* C8: right after add_notified_article(user, article) has_been_notified of
\* the pair is true; a second call for the pair adds no second row, raises
\* nothing and leaves has_been_notified true.
C8_AddNotifiedArticle ==
    call.op = "add_notified_article" =>
        /\ has_been_notified(notified_articles, call.user, call.article)
        /\ Occurrences(notified_articles, <<call.user, call.article>>) = 1
        /\ ~call.error
        /\ <<call.user, call.article>> \in Range(call.notified)
               => notified_articles = call.notified

C8_Witness ==
    /\ call.op = "add_notified_article"
    /\ <<call.user, call.article>> \in Range(call.notified)
    /\ has_been_notified(notified_articles, call.user, call.article)

----------------------------------------------------------------------------
\* Properties of the tick (checked under Spec).

Notified(u, a) == has_been_notified(notified_articles, u, a)

\* What the search of topic t returned in the running tick (feeds change
\* between ticks only).
Returned(t) == Range(search_arxiv(t, MAX_RESULTS_PER_SEARCH, FALSE))

NoSendFailed == \A p \in Pairs : tick.failed[p] = 0

\* C1: a tick that follows another with the same subscriptions and the same
\* search results sends nothing to a (user, article) pair the first tick
\* delivered.
C1_SecondTickSendsNothing ==
    tick.repeat =>
        \A p \in tick.prevSent : tick.sent[p] = 0 /\ tick.failed[p] = 0

\* C2: when a tick in which every send succeeded and every topic was
\* processed has run, each subscriber of a topic got each article returned
\* for it exactly once and is recorded for it if he was not recorded when the
\* tick started, and got nothing for it if he was.
C2_OneMessagePerNewPair ==
    (/\ pc = "done"
     /\ NoSendFailed
     /\ \A t \in SnapshotTopics(subscriptions) : tick.result[t] = "ok")
    => \A t \in SnapshotTopics(subscriptions) : \A a \in Returned(t) :
         \A u \in Users :
           Subscribed(subscriptions, u, t) =>
             IF <<u, a>> \in tick.atStart
             THEN tick.sent[<<u, a>>] = 0
             ELSE tick.sent[<<u, a>>] = 1 /\ Notified(u, a)

\* The same up to the end of the topic loop, before the history is cleaned.
C2_BeforeClean ==
    (/\ pc = "clean"
     /\ NoSendFailed
     /\ \A t \in SnapshotTopics(subscriptions) : tick.result[t] = "ok")
    => \A t \in SnapshotTopics(subscriptions) : \A a \in Returned(t) :
         \A u \in Users :
           Subscribed(subscriptions, u, t) =>
             IF <<u, a>> \in tick.atStart
             THEN tick.sent[<<u, a>>] = 0
             ELSE tick.sent[<<u, a>>] = 1 /\ Notified(u, a)

\* The loop over subscriptions.items() has ended for article_id under topic.
UserLoopDone == pc = "user" /\ uidx > Len(subscriptions)

\* C3: a pair whose send failed in the tick, and was not delivered in it, has
\* no ledger row; and when the user loop of an article ends with a failed
\* send to one subscriber of the topic, every other subscriber of the topic
\* whose send did not fail is recorded, and was sent the article once if he
\* was not recorded when the tick started.
C3_FailedSendIsolated ==
    /\ \A p \in Pairs :
         tick.failed[p] > 0 /\ tick.sent[p] = 0 => ~Notified(p[1], p[2])
    /\ UserLoopDone =>
         \A u1 \in Users, u2 \in Users :
           (/\ u1 # u2
            /\ Subscribed(subscriptions, u1, topic)
            /\ Subscribed(subscriptions, u2, topic)
            /\ tick.failed[<<u1, article_id>>] > 0
            /\ tick.failed[<<u2, article_id>>] = 0)
           => /\ Notified(u2, article_id)
              /\ <<u2, article_id>> \notin tick.atStart
                     => tick.sent[<<u2, article_id>>] = 1

C3_Witness ==
    /\ UserLoopDone
    /\ \E u1 \in Users, u2 \in Users :
         /\ Subscribed(subscriptions, u1, topic)
         /\ Subscribed(subscriptions, u2, topic)
         /\ tick.failed[<<u1, article_id>>] = 1
         /\ ~Notified(u1, article_id)
         /\ tick.sent[<<u2, article_id>>] = 1
         /\ Notified(u2, article_id)
         /\ int(subscriptions[1].key) = u1

TopicFailed(t) == tick.result[t] \in {"error", "raised", "aborted"}

\* C4: a failure while one topic is searched or processed never leaves the
\* tick; when the topic loop has ended every topic of the snapshot was
\* searched, and each article of a topic whose processing did not fail was
\* sent to every subscriber not yet recorded for it.
C4_TopicFailureIsolated ==
    /\ tick.exit # "raised"
    /\ pc = "idle" => tick.exit \in {"none", "returned"}
    /\ pc \in {"clean", "done"} =>
         \A t \in SnapshotTopics(subscriptions) : tick.result[t] # "pending"
    /\ pc = "clean" =>
         \A t \in SnapshotTopics(subscriptions) :
           tick.result[t] = "ok" =>
             \A a \in Returned(t), u \in Users :
               Subscribed(subscriptions, u, t) =>
                 Notified(u, a) \/ tick.failed[<<u, a>>] > 0

C4_Witness ==
    /\ pc = "clean"
    /\ \E t1 \in Topics, t2 \in Topics :
         /\ tick.result[t1] = "raised"
         /\ tick.result[t2] = "ok"
         /\ \E a \in Returned(t2), u \in Users :
              /\ Subscribed(subscriptions, u, t2)
              /\ tick.sent[<<u, a>>] = 1
              /\ Notified(u, a)

\* C9: has_been_notified is true of every pair add_notified_article has
\* recorded.
C9_RecordedStaysNotified ==
    \A p \in hist.recorded : Notified(p[1], p[2])

\* Rows of the same user inserted after the row.
NewerRows(table, row) ==
    Cardinality({j \in 1..Len(table) :
                   /\ table[j][1] = row[1]
                   /\ \E i \in 1..Len(table) : table[i] = row /\ i < j})

\* C9 as amended: a recorded pair stops being notified only in the cleaning
\* at the end of a tick whose snapshot holds the user, and only when at least
\* MAX_NOTIFICATION_HISTORY rows of that user were inserted after it.
C9_RecordedUntilCleaned ==
    [][\A p \in Range(notified_articles) \ Range(notified_articles') :
          /\ pc = "clean"
          /\ p[1] \in SnapshotUsers(subscriptions)
          /\ NewerRows(notified_articles, p) >= MAX_NOTIFICATION_HISTORY]_vars

C9_Witness ==
    /\ pc = "done"
    /\ \E p \in hist.recorded, q \in hist.recorded :
         /\ p[1] = q[1]
         /\ ~Notified(p[1], p[2])
         /\ Notified(q[1], q[2])

\* C10: every ledger row is of a pair a send has delivered, a row written
\* during a tick is of a pair a send of that tick delivered, and while a send
\* is awaited its pair has no row yet.
C10_RecordedAfterDelivery ==
    /\ Range(notified_articles) \subseteq hist.delivered
    /\ pc # "idle" =>
         \A p \in Range(notified_articles) \ tick.atStart : tick.sent[p] > 0
    /\ pc = "send" => ~Notified(int(subscriptions[uidx].key), article_id)

C10_Witness ==
    /\ \E p \in Pairs : tick.sent[p] = 1 /\ Notified(p[1], p[2])
    /\ \E p \in Pairs :
         /\ tick.failed[p] > 0
         /\ p \notin hist.delivered
         /\ ~Notified(p[1], p[2])

\* C11: in a tick, once a send of an article to a user has failed, no send of
\* that article to that user is started again, under any topic.
C11_NoRetryAfterFailure ==
    [][(pc = "user" /\ pc' = "send") =>
          tick.failed[<<int(subscriptions[uidx].key), article_id>>] = 0]_vars

\* C13: with the handlers' thread and the job's thread calling the database
\* functions in any interleaving, at most one thread is inside a
\* "with db_lock:" block, the lock is held exactly while a thread is inside
\* one (so it is free again after every call, raised or not), and neither
\* table ever holds a row twice.
Inside == {th \in Threads : threads[th].at # "out"}

C13_StoreOperationsAtomic ==
    /\ Cardinality(Inside) <= 1
    /\ db_lock = (Inside # {})
    /\ NoDuplicateRows(user_subscriptions)
    /\ NoDuplicateRows(notified_articles)

C13_Witness ==
    /\ threads["tick"].at = "selected"
    /\ Len(threads["tick"].all_articles) = 2
    /\ threads["handler"].at = "out"
    /\ Len(user_subscriptions) = 3
    /\ db_lock

\* C14: a send of a tick goes to a user for a topic of that user's entry in
\* the tick's snapshot; the snapshot does not change while the tick runs
\* (a pair subscribed meanwhile gets nothing in the tick); and the snapshot
\* of a starting tick holds exactly the (user, topic) rows present at that
\* moment, those added during the tick before included.
C14_SnapshotFixesRecipients ==
    /\ [](pc = "send" =>
            /\ uidx \in 1..Len(subscriptions)
            /\ topic \in Range(subscriptions[uidx].value))
    /\ [][pc # "idle" /\ pc' # "idle" => subscriptions' = subscriptions]_vars
    /\ [][events'.ticks # events.ticks =>
            \A u \in Users, t \in Topics :
              Subscribed(subscriptions', u, t)
                  <=> <<u, t>> \in Range(user_subscriptions)]_vars

C14_Witness ==
    /\ pc = "clean"
    /\ \E u \in Users, t \in Topics :
         /\ <<u, t>> \in Range(user_subscriptions)
         /\ ~Subscribed(subscriptions, u, t)
         /\ tick.result[t] = "ok"
         /\ \E a \in Returned(t), v \in Users :
              /\ tick.sent[<<v, a>>] = 1
              /\ tick.sent[<<u, a>>] = 0
              /\ tick.failed[<<u, a>>] = 0
              /\ ~Notified(u, a)

\* C15: when a tick that started with a non-empty snapshot has run its last
\* loop, every user of the snapshot has at most MAX_NOTIFICATION_HISTORY
\* ledger rows, whatever searches and sends failed in the tick.
C15_HistoryBoundedAtTickEnd ==
    pc = "done" =>
        \A u \in SnapshotUsers(subscriptions) :
          Len(RowsOf(notified_articles, u)) <= MAX_NOTIFICATION_HISTORY

C15_Witness ==
    /\ pc = "done"
    /\ \E t \in Topics : TopicFailed(t)
    /\ \E u \in SnapshotUsers(subscriptions) :
         /\ Len(RowsOf(notified_articles, u)) = MAX_NOTIFICATION_HISTORY
         /\ \E a \in Articles :
              /\ tick.sent[<<u, a>>] = 1
              /\ Notified(u, a)
         /\ \E p \in hist.recorded : p[1] = u /\ ~Notified(p[1], p[2])

\* C16: a started tick reaches the end of check_new_articles and returns,
\* whatever searches and sends fail, and it is left from its last line only
\* (nothing ends it early or is raised out of it).
C16_TickFinishes ==
    /\ (pc # "idle") ~> (pc = "idle" /\ tick.exit = "returned")
    /\ [][pc # "idle" /\ pc' = "idle" => pc = "done"]_vars

C16_Witness ==
    /\ pc = "idle"
    /\ tick.exit = "returned"
    /\ \E t \in Topics : tick.result[t] = "raised"
    /\ \E p \in Pairs : tick.failed[p] > 0

\* C17: a step of a command handler leaves the ledger as it is, the ledger
\* changes only in the tick (after a send, and in the cleaning), and the
\* tick starts a send only for a pair that has no ledger row: a user who
\* unsubscribes and subscribes again is not sent an article he is still
\* recorded for.
C17_HandlersLeaveLedger ==
    /\ [][events'.commands # events.commands =>
            notified_articles' = notified_articles]_vars
    /\ [][notified_articles' # notified_articles =>
            \/ pc = "send" /\ pc' = "user"
            \/ pc = "clean" /\ pc' = "done"]_vars
    /\ [][pc = "user" /\ pc' = "send" =>
            ~Notified(int(subscriptions[uidx].key), article_id)]_vars

C17_Witness ==
    /\ pc = "clean"
    /\ \E d \in hist.dropped :
         LET u == d[1]
             t == d[2]
             a == d[3]
         IN  /\ <<u, t>> \in Range(user_subscriptions)
             /\ Subscribed(subscriptions, u, t)
             /\ tick.result[t] = "ok"
             /\ a \in Returned(t)
             /\ <<u, a>> \in tick.atStart
             /\ Notified(u, a)
             /\ tick.sent[<<u, a>>] = 0
             /\ tick.failed[<<u, a>>] = 0

====
